---- MODULE Spec2Model ----
(***************************************************************************)
(* Model of Libraries/PermissionsAndroid/PermissionsAndroid.js.            *)
(*                                                                         *)
(* The facade object holds the PERMISSIONS table and offers two           *)
(* operations, checkPermission and requestPermission.  Both delegate to   *)
(* two native modules that are not part of the file: the permissions      *)
(* provider (NativeModules.PermissionsAndroid) and the dialog provider    *)
(* (NativeModules.DialogManagerAndroid).  The providers are modelled as   *)
(* the environment: a provider promise settles with any outcome, and the  *)
(* dialog fires the callbacks it was handed.                              *)
(*                                                                         *)
(* Every invocation of the facade is one slot i \in Invocations.  A slot  *)
(* records the arguments captured by the call, the point where the async  *)
(* function is suspended, the promises involved and the sequence of       *)
(* provider/dialog events of that invocation (trace).                     *)
(***************************************************************************)
EXTENDS Integers, Sequences, FiniteSets, TLC

\* Number of facade invocations that may be in flight together.
NumInvocations == 2

Invocations == 1..NumInvocations

\* Identifiers handed to the facade: one from the table, one absent from it.
PermissionIds == {"android.permission.CAMERA", "com.example.permission.UNLISTED"}

\* The optional second argument of requestPermission: absent, or {title, message}.
NoRationale == [given |-> FALSE, title |-> "", message |-> ""]
SomeRationale == [given |-> TRUE, title |-> "T", message |-> "M"]
Rationales == {NoRationale, SomeRationale}

\* States of a promise.  "locked" is a promise already resolved with another
\* (still pending) promise: it is not settled, and further resolve/reject
\* calls on it are ignored.
Pending == [st |-> "pending", val |-> FALSE, err |-> ""]
Locked == [st |-> "locked", val |-> FALSE, err |-> ""]
NotCreated == [st |-> "none", val |-> FALSE, err |-> ""]
Fulfilled(b) == [st |-> "fulfilled", val |-> b, err |-> ""]
Rejected(e) == [st |-> "rejected", val |-> FALSE, err |-> e]

\* What the permissions provider may answer to a call: a boolean, or a
\* rejection (an error other than the facade's own DialogError).
ProviderErrors == {"E_INVALID_PERMISSION"}
ProviderOutcomes == {Fulfilled(TRUE), Fulfilled(FALSE)} \cup {Rejected(e) : e \in ProviderErrors}

\* new Error('Error showing rationale')
DialogError == "Error showing rationale"

Settled(p) == p.st \in {"fulfilled", "rejected"}

\* The table built by the constructor.
PermissionTable ==
  [ READ_CALENDAR |-> "android.permission.READ_CALENDAR",
    WRITE_CALENDAR |-> "android.permission.WRITE_CALENDAR",
    CAMERA |-> "android.permission.CAMERA",
    READ_CONTACTS |-> "android.permission.READ_CONTACTS",
    WRITE_CONTACTS |-> "android.permission.WRITE_CONTACTS",
    GET_ACCOUNTS |-> "android.permission.GET_ACCOUNTS",
    ACCESS_FINE_LOCATION |-> "android.permission.ACCESS_FINE_LOCATION",
    ACCESS_COARSE_LOCATION |-> "android.permission.ACCESS_COARSE_LOCATION",
    RECORD_AUDIO |-> "android.permission.RECORD_AUDIO",
    READ_PHONE_STATE |-> "android.permission.READ_PHONE_STATE",
    CALL_PHONE |-> "android.permission.CALL_PHONE",
    READ_CALL_LOG |-> "android.permission.READ_CALL_LOG",
    WRITE_CALL_LOG |-> "android.permission.WRITE_CALL_LOG",
    ADD_VOICEMAIL |-> "com.android.voicemail.permission.ADD_VOICEMAIL",
    USE_SIP |-> "android.permission.USE_SIP",
    PROCESS_OUTGOING_CALLS |-> "android.permission.PROCESS_OUTGOING_CALLS",
    BODY_SENSORS |-> "android.permission.BODY_SENSORS",
    SEND_SMS |-> "android.permission.SEND_SMS",
    RECEIVE_SMS |-> "android.permission.RECEIVE_SMS",
    READ_SMS |-> "android.permission.READ_SMS",
    RECEIVE_WAP_PUSH |-> "android.permission.RECEIVE_WAP_PUSH",
    RECEIVE_MMS |-> "android.permission.RECEIVE_MMS",
    READ_EXTERNAL_STORAGE |-> "android.permission.READ_EXTERNAL_STORAGE",
    WRITE_EXTERNAL_STORAGE |-> "android.permission.WRITE_EXTERNAL_STORAGE" ]

VARIABLES
  PERMISSIONS,   \* this.PERMISSIONS
  op,            \* op[i]: the facade operation invocation i runs ("" before the call)
  permission,    \* permission[i]: the `permission` argument captured by invocation i
  rationale,     \* rationale[i]: the `rationale` argument captured by invocation i
  pc,            \* pc[i]: "idle", "await" (suspended at the await), "returned"
  promise,       \* promise[i]: the promise the facade handed to its caller
  checkP,        \* checkP[i]: promise of Permissions.checkPermission
  shouldP,       \* shouldP[i]: promise of Permissions.shouldShowRequestPermissionRationale
  requestP,      \* requestP[i]: promise of Permissions.requestPermission
  alert,         \* alert[i]: TRUE once DialogManagerAndroid.showAlert was called
  fired,         \* fired[i]: the callbacks of the alert fired so far, in order
  trace          \* trace[i]: provider/dialog events of invocation i, in order

vars == <<PERMISSIONS, op, permission, rationale, pc, promise, checkP, shouldP,
          requestP, alert, fired, trace>>

\* Events of a trace.
Call(name, p, r) == [ev |-> "call", name |-> name, arg |-> p, rat |-> r, res |-> NotCreated]
Settle(name, o) == [ev |-> "settle", name |-> name, arg |-> "", rat |-> NoRationale, res |-> o]
Callback(name) == [ev |-> "callback", name |-> name, arg |-> "", rat |-> NoRationale, res |-> NotCreated]

Init ==
  /\ PERMISSIONS = PermissionTable
  /\ op = [i \in Invocations |-> ""]
  /\ permission = [i \in Invocations |-> ""]
  /\ rationale = [i \in Invocations |-> NoRationale]
  /\ pc = [i \in Invocations |-> "idle"]
  /\ promise = [i \in Invocations |-> NotCreated]
  /\ checkP = [i \in Invocations |-> NotCreated]
  /\ shouldP = [i \in Invocations |-> NotCreated]
  /\ requestP = [i \in Invocations |-> NotCreated]
  /\ alert = [i \in Invocations |-> FALSE]
  /\ fired = [i \in Invocations |-> <<>>]
  /\ trace = [i \in Invocations |-> <<>>]

-----------------------------------------------------------------------------
(* The facade *)

\* checkPermission gone wrong: it validates the identifier against the table
\* and forwards an empty identifier for one it does not know.
checkPermission_validates(i, p) ==
  /\ pc[i] = "idle"
  /\ op' = [op EXCEPT ![i] = "checkPermission"]
  /\ permission' = [permission EXCEPT ![i] = p]
  /\ trace' = [trace EXCEPT ![i] = Append(@, Call("checkPermission",
        IF \E k \in DOMAIN PERMISSIONS : PERMISSIONS[k] = p THEN p ELSE "", NoRationale))]
  /\ checkP' = [checkP EXCEPT ![i] = Pending]
  /\ promise' = [promise EXCEPT ![i] = Pending]
  /\ pc' = [pc EXCEPT ![i] = "returned"]
  /\ UNCHANGED <<PERMISSIONS, rationale, shouldP, requestP, alert, fired>>

\* checkPermission gone wrong: it records the identifier it was asked about in
\* the table.
checkPermission_records(i, p) ==
  /\ pc[i] = "idle"
  /\ op' = [op EXCEPT ![i] = "checkPermission"]
  /\ permission' = [permission EXCEPT ![i] = p]
  /\ trace' = [trace EXCEPT ![i] = Append(@, Call("checkPermission", p, NoRationale))]
  /\ checkP' = [checkP EXCEPT ![i] = Pending]
  /\ promise' = [promise EXCEPT ![i] = Pending]
  /\ pc' = [pc EXCEPT ![i] = "returned"]
  /\ PERMISSIONS' = [PERMISSIONS EXCEPT !.CAMERA = p]
  /\ UNCHANGED <<rationale, shouldP, requestP, alert, fired>>

\* checkPermission(permission): return Permissions.checkPermission(permission).
\* The promise handed to the caller is the provider's promise itself.
checkPermission(i, p) ==
  /\ pc[i] = "idle"
  /\ op' = [op EXCEPT ![i] = "checkPermission"]
  /\ permission' = [permission EXCEPT ![i] = p]
  /\ trace' = [trace EXCEPT ![i] = Append(@, Call("checkPermission", p, NoRationale))]
  /\ checkP' = [checkP EXCEPT ![i] = Pending]
  /\ promise' = [promise EXCEPT ![i] = Pending]
  /\ pc' = [pc EXCEPT ![i] = "returned"]
  /\ UNCHANGED <<PERMISSIONS, rationale, shouldP, requestP, alert, fired>>

\* Permissions.requestPermission(permission) issued by invocation i, the
\* facade's promise being resolved with the promise it returns
\* (`return Permissions.requestPermission(permission)` of the async function,
\* `resolve(Permissions.requestPermission(permission))` of the callback).
\* Resolving a promise that is already resolved or settled changes nothing.
IssueRequest(i, p) ==
  /\ trace' = [trace EXCEPT ![i] = Append(@, Call("requestPermission", p, NoRationale))]
  /\ requestP' = [requestP EXCEPT ![i] = Pending]
  /\ promise' = [promise EXCEPT ![i] = IF @.st \in {"none", "pending"} THEN Locked ELSE @]

\* requestPermission gone wrong: `if (rationale)` is dropped, so the rationale
\* check is made whether or not a rationale was given.
requestPermission_alwaysAsks(i, p, r) ==
  /\ pc[i] = "idle"
  /\ op' = [op EXCEPT ![i] = "requestPermission"]
  /\ permission' = [permission EXCEPT ![i] = p]
  /\ rationale' = [rationale EXCEPT ![i] = r]
  /\ trace' = [trace EXCEPT ![i] =
        Append(@, Call("shouldShowRequestPermissionRationale", p, NoRationale))]
  /\ shouldP' = [shouldP EXCEPT ![i] = Pending]
  /\ promise' = [promise EXCEPT ![i] = Pending]
  /\ pc' = [pc EXCEPT ![i] = "await"]
  /\ UNCHANGED <<PERMISSIONS, checkP, requestP, alert, fired>>

\* requestPermission(permission, rationale), up to its first suspension:
\* with a rationale it calls shouldShowRequestPermissionRationale and awaits;
\* without one it falls through to the final return.
requestPermission(i, p, r) ==
  /\ pc[i] = "idle"
  /\ op' = [op EXCEPT ![i] = "requestPermission"]
  /\ permission' = [permission EXCEPT ![i] = p]
  /\ rationale' = [rationale EXCEPT ![i] = r]
  /\ IF r.given
       THEN /\ trace' = [trace EXCEPT ![i] =
                 Append(@, Call("shouldShowRequestPermissionRationale", p, NoRationale))]
            /\ shouldP' = [shouldP EXCEPT ![i] = Pending]
            /\ promise' = [promise EXCEPT ![i] = Pending]
            /\ pc' = [pc EXCEPT ![i] = "await"]
            /\ UNCHANGED requestP
       ELSE /\ IssueRequest(i, p)
            /\ pc' = [pc EXCEPT ![i] = "returned"]
            /\ UNCHANGED shouldP
  /\ UNCHANGED <<PERMISSIONS, checkP, alert, fired>>

\* The continuation gone wrong: the `return` before `new Promise` is missing,
\* so after showing the alert the function falls through to the final return.
ResumeAfterAwait_fallsThrough(i) ==
  /\ pc[i] = "await"
  /\ Settled(shouldP[i])
  /\ pc' = [pc EXCEPT ![i] = "returned"]
  /\ IF shouldP[i].st = "rejected"
       THEN /\ promise' = [promise EXCEPT ![i] = shouldP[i]]
            /\ UNCHANGED <<trace, requestP, alert>>
       ELSE IF shouldP[i].val
         THEN /\ trace' = [trace EXCEPT ![i] =
                   Append(Append(@, Call("showAlert", "", rationale[i])),
                          Call("requestPermission", permission[i], NoRationale))]
              /\ alert' = [alert EXCEPT ![i] = TRUE]
              /\ requestP' = [requestP EXCEPT ![i] = Pending]
              /\ promise' = [promise EXCEPT ![i] = Locked]
         ELSE /\ IssueRequest(i, permission[i])
              /\ UNCHANGED alert
  /\ UNCHANGED <<PERMISSIONS, op, permission, rationale, checkP, shouldP, fired>>

\* The continuation gone wrong: the answer of the rationale check is ignored
\* and the alert is shown whenever the check resolves.
ResumeAfterAwait_alwaysShows(i) ==
  /\ pc[i] = "await"
  /\ Settled(shouldP[i])
  /\ pc' = [pc EXCEPT ![i] = "returned"]
  /\ IF shouldP[i].st = "rejected"
       THEN /\ promise' = [promise EXCEPT ![i] = shouldP[i]]
            /\ UNCHANGED <<trace, requestP, alert>>
       ELSE /\ trace' = [trace EXCEPT ![i] =
                 Append(@, Call("showAlert", "", rationale[i]))]
            /\ alert' = [alert EXCEPT ![i] = TRUE]
            /\ UNCHANGED <<promise, requestP>>
  /\ UNCHANGED <<PERMISSIONS, op, permission, rationale, checkP, shouldP, fired>>

\* The continuation gone wrong: the await sits in a try/catch that treats a
\* rejected rationale check as "no rationale needed".
ResumeAfterAwait_catches(i) ==
  /\ pc[i] = "await"
  /\ Settled(shouldP[i])
  /\ pc' = [pc EXCEPT ![i] = "returned"]
  /\ IF shouldP[i].st = "fulfilled" /\ shouldP[i].val
       THEN /\ trace' = [trace EXCEPT ![i] =
                 Append(@, Call("showAlert", "", rationale[i]))]
            /\ alert' = [alert EXCEPT ![i] = TRUE]
            /\ UNCHANGED <<promise, requestP>>
       ELSE /\ IssueRequest(i, permission[i])
            /\ UNCHANGED alert
  /\ UNCHANGED <<PERMISSIONS, op, permission, rationale, checkP, shouldP, fired>>

\* The continuation of requestPermission after the await: a rejected
\* rationale check throws out of the async function; a true answer shows the
\* alert and returns the new promise; a false answer falls through to the
\* final return.
ResumeAfterAwait(i) ==
  /\ pc[i] = "await"
  /\ Settled(shouldP[i])
  /\ pc' = [pc EXCEPT ![i] = "returned"]
  /\ IF shouldP[i].st = "rejected"
       THEN /\ promise' = [promise EXCEPT ![i] = shouldP[i]]
            /\ UNCHANGED <<trace, requestP, alert>>
       ELSE IF shouldP[i].val
         THEN /\ trace' = [trace EXCEPT ![i] =
                   Append(@, Call("showAlert", "", rationale[i]))]
              /\ alert' = [alert EXCEPT ![i] = TRUE]
              /\ UNCHANGED <<promise, requestP>>
         ELSE /\ IssueRequest(i, permission[i])
              /\ UNCHANGED alert
  /\ UNCHANGED <<PERMISSIONS, op, permission, rationale, checkP, shouldP, fired>>

\* The failure callback gone wrong: the two callbacks are handed to showAlert
\* in the wrong order, so a failure to show the alert starts the request.
onFailure_proceeds(i) ==
  /\ trace' = [trace EXCEPT ![i] =
        Append(Append(@, Callback("onFailure")),
               Call("requestPermission", permission[i], NoRationale))]
  /\ fired' = [fired EXCEPT ![i] = Append(@, "onFailure")]
  /\ requestP' = [requestP EXCEPT ![i] = Pending]
  /\ promise' = [promise EXCEPT ![i] = IF @.st = "pending" THEN Locked ELSE @]
  /\ UNCHANGED <<PERMISSIONS, op, permission, rationale, pc, checkP, shouldP, alert>>

\* The failure callback gone wrong: the outcome is kept in a field the
\* callback overwrites, instead of a promise that settles once.
onFailure_overwrites(i) ==
  /\ trace' = [trace EXCEPT ![i] = Append(@, Callback("onFailure"))]
  /\ fired' = [fired EXCEPT ![i] = Append(@, "onFailure")]
  /\ promise' = [promise EXCEPT ![i] = Rejected(DialogError)]
  /\ UNCHANGED <<PERMISSIONS, op, permission, rationale, pc, checkP, shouldP, requestP, alert>>

\* () => reject(new Error('Error showing rationale'))
onFailure(i) ==
  /\ trace' = [trace EXCEPT ![i] = Append(@, Callback("onFailure"))]
  /\ fired' = [fired EXCEPT ![i] = Append(@, "onFailure")]
  /\ promise' = [promise EXCEPT ![i] = IF @.st = "pending" THEN Rejected(DialogError) ELSE @]
  /\ UNCHANGED <<PERMISSIONS, op, permission, rationale, pc, checkP, shouldP, requestP, alert>>

\* The success callback gone wrong: dismissing the alert is taken for the
\* user's consent, () => resolve(true).
onSuccess_grants(i) ==
  /\ fired' = [fired EXCEPT ![i] = Append(@, "onSuccess")]
  /\ trace' = [trace EXCEPT ![i] = Append(@, Callback("onSuccess"))]
  /\ promise' = [promise EXCEPT ![i] = IF @.st = "pending" THEN Fulfilled(TRUE) ELSE @]
  /\ UNCHANGED <<PERMISSIONS, op, permission, rationale, pc, checkP, shouldP, requestP, alert>>

\* () => resolve(Permissions.requestPermission(permission))
onSuccess(i) ==
  /\ fired' = [fired EXCEPT ![i] = Append(@, "onSuccess")]
  /\ trace' = [trace EXCEPT ![i] =
        Append(Append(@, Callback("onSuccess")),
               Call("requestPermission", permission[i], NoRationale))]
  /\ requestP' = [requestP EXCEPT ![i] = Pending]
  /\ promise' = [promise EXCEPT ![i] = IF @.st = "pending" THEN Locked ELSE @]
  /\ UNCHANGED <<PERMISSIONS, op, permission, rationale, pc, checkP, shouldP, alert>>

\* Following gone wrong: the pending request is kept in one module-level slot
\* shared by all invocations, so an invocation may take the outcome of
\* another invocation's request.
Follow_shared(i) ==
  /\ promise[i].st = "locked"
  /\ \E j \in Invocations :
       /\ Settled(requestP[j])
       /\ promise' = [promise EXCEPT ![i] = requestP[j]]
  /\ UNCHANGED <<PERMISSIONS, op, permission, rationale, pc, checkP, shouldP, requestP,
                 alert, fired, trace>>

\* The facade's promise, resolved with the promise of
\* Permissions.requestPermission, takes that promise's outcome once it settles.
Follow(i) ==
  /\ promise[i].st = "locked"
  /\ Settled(requestP[i])
  /\ promise' = [promise EXCEPT ![i] = requestP[i]]
  /\ UNCHANGED <<PERMISSIONS, op, permission, rationale, pc, checkP, shouldP, requestP,
                 alert, fired, trace>>

-----------------------------------------------------------------------------
(* The environment: the permissions provider and the dialog provider *)

\* Permissions.checkPermission settles.  The caller holds this very promise.
SettleCheck(i, o) ==
  /\ checkP[i].st = "pending"
  /\ checkP' = [checkP EXCEPT ![i] = o]
  /\ promise' = [promise EXCEPT ![i] = o]
  /\ trace' = [trace EXCEPT ![i] = Append(@, Settle("checkPermission", o))]
  /\ UNCHANGED <<PERMISSIONS, op, permission, rationale, pc, shouldP, requestP, alert, fired>>

\* Permissions.shouldShowRequestPermissionRationale settles.
SettleShould(i, o) ==
  /\ shouldP[i].st = "pending"
  /\ shouldP' = [shouldP EXCEPT ![i] = o]
  /\ trace' = [trace EXCEPT ![i] =
        Append(@, Settle("shouldShowRequestPermissionRationale", o))]
  /\ UNCHANGED <<PERMISSIONS, op, permission, rationale, pc, promise, checkP, requestP,
                 alert, fired>>

\* Permissions.requestPermission settles.
SettleRequest(i, o) ==
  /\ requestP[i].st = "pending"
  /\ requestP' = [requestP EXCEPT ![i] = o]
  /\ trace' = [trace EXCEPT ![i] = Append(@, Settle("requestPermission", o))]
  /\ UNCHANGED <<PERMISSIONS, op, permission, rationale, pc, promise, checkP, shouldP,
                 alert, fired>>

\* The alert could not be shown: the dialog provider fires its failure callback.
DialogFails(i) ==
  /\ alert[i]
  /\ fired[i] = <<>>
  /\ onFailure(i)

\* The alert was shown and dismissed: the dialog provider fires its success callback.
DialogSucceeds(i) ==
  /\ alert[i]
  /\ fired[i] = <<>>
  /\ onSuccess(i)

\* A dialog provider that, having fired one callback, fires the other one as
\* well (each callback still at most once).
DialogFiresOtherCallback(i) ==
  /\ alert[i]
  /\ Len(fired[i]) = 1
  /\ IF fired[i][1] = "onSuccess" THEN onFailure(i) ELSE onSuccess(i)

-----------------------------------------------------------------------------

Next ==
  \/ \E i \in Invocations, p \in PermissionIds : checkPermission(i, p)
  \/ \E i \in Invocations, p \in PermissionIds, r \in Rationales : requestPermission(i, p, r)
  \/ \E i \in Invocations : ResumeAfterAwait(i)
  \/ \E i \in Invocations : Follow(i)
  \/ \E i \in Invocations, o \in ProviderOutcomes : SettleCheck(i, o)
  \/ \E i \in Invocations, o \in ProviderOutcomes : SettleShould(i, o)
  \/ \E i \in Invocations, o \in ProviderOutcomes : SettleRequest(i, o)
  \/ \E i \in Invocations : DialogFails(i)
  \/ \E i \in Invocations : DialogSucceeds(i)

\* The dialog provider completes an alert through one of its two callbacks:
\* the failure callback says the alert could not be shown, the success
\* callback that it was shown and dismissed.
Spec == Init /\ [][Next]_vars

NextBothCallbacks ==
  \/ Next
  \/ \E i \in Invocations : DialogFiresOtherCallback(i)

\* A dialog provider held to less: it may fire both callbacks of an alert, in
\* either order, each at most once.  The facade does not guard its callbacks
\* against that: the success callback issues the request whether or not the
\* failure callback has fired.
SpecBothCallbacks == Init /\ [][NextBothCallbacks]_vars

\* The scheduling of the runtime: a continuation whose awaited promise has
\* settled, and a promise resolved with a settled promise, are run by the
\* microtask queue; and the permissions provider settles every call made to
\* it.  Nothing is assumed of the dialog provider.
Fairness ==
  \A i \in Invocations :
    /\ WF_vars(ResumeAfterAwait(i))
    /\ WF_vars(Follow(i))
    /\ WF_vars(\E o \in ProviderOutcomes : SettleCheck(i, o))
    /\ WF_vars(\E o \in ProviderOutcomes : SettleShould(i, o))
    /\ WF_vars(\E o \in ProviderOutcomes : SettleRequest(i, o))

LiveSpecBothCallbacks == Init /\ [][NextBothCallbacks]_vars /\ Fairness

-----------------------------------------------------------------------------
(* Reading a trace *)

IsCall(e) == e.ev = "call"

\* The provider and dialog calls invocation i has made, in order.
CallsOf(i) == SelectSeq(trace[i], IsCall)

\* The positions in trace[i] of the calls of the operation `name`.
CallIdx(i, name) ==
  {k \in DOMAIN trace[i] : trace[i][k].ev = "call" /\ trace[i][k].name = name}

\* The positions in trace[i] where the operation `name` settled.
SettleIdx(i, name) ==
  {k \in DOMAIN trace[i] : trace[i][k].ev = "settle" /\ trace[i][k].name = name}

\* The positions in trace[i] where the dialog fired a callback.
CallbackIdx(i) == {k \in DOMAIN trace[i] : trace[i][k].ev = "callback"}

HasFired(i, cb) == \E k \in DOMAIN fired[i] : fired[i][k] = cb

\* Invocation i is a requestPermission with a rationale whose rationale
\* check resolved to b and whose continuation has run.
RationalePath(i, b) ==
  /\ op[i] = "requestPermission"
  /\ rationale[i].given
  /\ shouldP[i] = Fulfilled(b)
  /\ pc[i] = "returned"

\* The facade's promise is tied to the one request the invocation issued: it
\* is resolved with that request's promise and, once settled, has its outcome.
TiedToRequest(i) ==
  /\ promise[i] \in {Locked, requestP[i]}
  /\ (Settled(promise[i]) => promise[i] = requestP[i])
  /\ (promise[i] = Locked => requestP[i].st # "none")

-----------------------------------------------------------------------------
(* The claims *)

\* C1: in every invocation of requestPermission the provider's
\* requestPermission is issued at most once, and never before the rationale
\* check (if one was made) has settled and the dialog (if one was shown) has
\* fired a callback.  Checked with a dialog that may fire both callbacks.
C1_RequestOnceAndLast ==
  \A i \in Invocations :
    op[i] = "requestPermission" =>
      /\ Cardinality(CallIdx(i, "requestPermission")) <= 1
      /\ \A q \in CallIdx(i, "requestPermission") :
           /\ trace[i][q].arg = permission[i]
           /\ \A c \in CallIdx(i, "shouldShowRequestPermissionRationale") :
                \E k \in SettleIdx(i, "shouldShowRequestPermissionRationale") : c < k /\ k < q
           /\ \A a \in CallIdx(i, "showAlert") :
                \E k \in CallbackIdx(i) : a < k /\ k < q

C1_Witness ==
  \E i \in Invocations :
    /\ RationalePath(i, TRUE)
    /\ HasFired(i, "onSuccess")
    /\ Cardinality(CallIdx(i, "requestPermission")) = 1
    /\ Settled(promise[i])

AfterRationaleCheck(i) == SubSeq(trace[i], 3, Len(trace[i]))

\* C4: requestPermission with a rationale, when the rationale check resolves
\* false, goes on as requestPermission without a rationale does: showAlert is
\* never invoked, the provider's requestPermission is invoked exactly once,
\* the facade settles as that call does, and the events after the check are
\* those of an invocation without rationale given the same answer.
C4_NoRationaleNeeded ==
  \A i \in Invocations :
    RationalePath(i, FALSE) =>
      /\ CallIdx(i, "showAlert") = {}
      /\ ~alert[i]
      /\ Cardinality(CallIdx(i, "requestPermission")) = 1
      /\ \A q \in CallIdx(i, "requestPermission") : trace[i][q].arg = permission[i]
      /\ TiedToRequest(i)
      /\ \A j \in Invocations :
           ( /\ op[j] = "requestPermission"
             /\ ~rationale[j].given
             /\ permission[j] = permission[i]
             /\ requestP[j] = requestP[i] ) =>
               /\ AfterRationaleCheck(i) = trace[j]
               /\ (promise[i].st = promise[j].st => promise[i] = promise[j])

C4_Witness ==
  \E i, j \in Invocations :
    /\ RationalePath(i, FALSE)
    /\ op[j] = "requestPermission"
    /\ ~rationale[j].given
    /\ permission[j] = permission[i]
    /\ requestP[j] = requestP[i]
    /\ Settled(promise[i])
    /\ Settled(promise[j])

\* C5: requestPermission without a rationale invokes the provider's
\* requestPermission exactly once, with the identifier it was given; it
\* invokes neither the rationale check nor the dialog; and it resolves or
\* rejects exactly as the provider's call does.
C5_DirectRequest ==
  \A i \in Invocations :
    (op[i] = "requestPermission" /\ ~rationale[i].given) =>
      /\ CallsOf(i) = <<Call("requestPermission", permission[i], NoRationale)>>
      /\ shouldP[i].st = "none"
      /\ ~alert[i]
      /\ TiedToRequest(i)

C5_Witness ==
  \E i \in Invocations :
    /\ op[i] = "requestPermission"
    /\ ~rationale[i].given
    /\ requestP[i] = Fulfilled(FALSE)
    /\ promise[i] = Fulfilled(FALSE)

\* C6: checkPermission invokes the provider's checkPermission exactly once,
\* with the identifier unchanged (in the table or not), invokes nothing else,
\* and its promise has exactly the provider's outcome.
C6_CheckForwards ==
  \A i \in Invocations :
    op[i] = "checkPermission" =>
      /\ CallsOf(i) = <<Call("checkPermission", permission[i], NoRationale)>>
      /\ promise[i] = checkP[i]
      /\ shouldP[i].st = "none" /\ requestP[i].st = "none" /\ ~alert[i]
      /\ \A k \in DOMAIN trace[i] : trace[i][k].name = "checkPermission"

C6_Witness ==
  \E i \in Invocations :
    /\ op[i] = "checkPermission"
    /\ \A k \in DOMAIN PERMISSIONS : PERMISSIONS[k] # permission[i]
    /\ promise[i].st = "rejected"

C8_TableStable ==
  /\ PERMISSIONS = PermissionTable
  /\ Cardinality(DOMAIN PERMISSIONS) = 24
  /\ PERMISSIONS.CAMERA = "android.permission.CAMERA"

C8_Witness ==
  /\ \E i \in Invocations : op[i] = "checkPermission" /\ Settled(promise[i])
  /\ \E i \in Invocations : op[i] = "requestPermission" /\ Settled(promise[i])
  /\ PERMISSIONS.CAMERA = "android.permission.CAMERA"

\* The events of invocation i that are answers: settled provider calls and
\* fired callbacks, in order.
IsAnswer(e) == e.ev # "call"
AnswersOf(i) == SelectSeq(trace[i], IsAnswer)

\* What an invocation running alone does: the calls it has made once it has
\* consumed the answers `ans` to its own calls ...
SoloCalls(o, p, r, ans) ==
  IF o = "checkPermission" THEN <<Call("checkPermission", p, NoRationale)>>
  ELSE IF ~r.given THEN <<Call("requestPermission", p, NoRationale)>>
  ELSE <<Call("shouldShowRequestPermissionRationale", p, NoRationale)>> \o
       ( IF ans = <<>> \/ ans[1].res.st = "rejected" THEN <<>>
         ELSE IF ~ans[1].res.val THEN <<Call("requestPermission", p, NoRationale)>>
         ELSE <<Call("showAlert", "", r)>> \o
              ( IF Len(ans) >= 2 /\ ans[2] = Callback("onSuccess")
                  THEN <<Call("requestPermission", p, NoRationale)>>
                  ELSE <<>> ) )

\* ... and the state of the promise it handed out.
SoloPromise(o, p, r, ans) ==
  IF o = "checkPermission" THEN (IF ans = <<>> THEN Pending ELSE ans[1].res)
  ELSE IF ~r.given THEN (IF ans = <<>> THEN Locked ELSE ans[1].res)
  ELSE IF ans = <<>> THEN Pending
  ELSE IF ans[1].res.st = "rejected" THEN ans[1].res
  ELSE IF ~ans[1].res.val THEN (IF Len(ans) >= 2 THEN ans[2].res ELSE Locked)
  ELSE IF Len(ans) < 2 THEN Pending
  ELSE IF ans[2] = Callback("onFailure") THEN Rejected(DialogError)
  ELSE IF Len(ans) >= 3 THEN ans[3].res ELSE Locked

\* Invocation i has nothing left to run: every answer it received has been
\* consumed by its continuation and by its promise.
Quiet(i) ==
  /\ ~(pc[i] = "await" /\ Settled(shouldP[i]))
  /\ ~(promise[i].st = "locked" /\ Settled(requestP[i]))

\* All the state of invocation i.
Slot(i) ==
  <<op[i], permission[i], rationale[i], pc[i], promise[i], checkP[i], shouldP[i],
    requestP[i], alert[i], fired[i], trace[i]>>

\* A step touches the state of one invocation only, and never the table.
OneSlotPerStep ==
  /\ \A i, j \in Invocations : (i # j /\ Slot(i)' # Slot(i)) => Slot(j)' = Slot(j)
  /\ PERMISSIONS' = PERMISSIONS

\* The calls and the promise of every invocation are those of a run alone
\* with the same arguments and the same answers.
AsIfAlone ==
  \A i \in Invocations :
    (op[i] # "" /\ Quiet(i)) =>
      /\ CallsOf(i) = SoloCalls(op[i], permission[i], rationale[i], AnswersOf(i))
      /\ promise[i] = SoloPromise(op[i], permission[i], rationale[i], AnswersOf(i))

\* C9: concurrent invocations do not interfere.  Whatever the interleaving of
\* the steps of the invocations in flight, each step changes the state of one
\* invocation only, and the calls and the outcome of each invocation depend
\* on its own arguments and on the answers to its own calls alone: they are
\* those of the invocation run alone.
C9_NoInterference == [][OneSlotPerStep]_vars /\ []AsIfAlone

\* Two requests for the same permission in flight together, one waiting for
\* the provider's answer, the other for the dialog.
C9_Witness ==
  \E i, j \in Invocations :
    /\ i # j
    /\ op[i] = "requestPermission" /\ op[j] = "requestPermission"
    /\ permission[i] = permission[j]
    /\ promise[i] = Locked /\ requestP[i].st = "pending"
    /\ alert[j] /\ fired[j] = <<>> /\ promise[j] = Pending

\* The dialog of invocation i has been shown and has fired no callback.
DialogSilent(i) == alert[i] /\ fired[i] = <<>>

\* A settled promise keeps its outcome.
SettlesOnce ==
  \A i \in Invocations : Settled(promise[i]) => promise[i]' = promise[i]

\* C10: every invocation of requestPermission settles exactly once.  Given
\* that the provider settles its calls (fairness) and that the dialog, if
\* shown, fires a callback, the promise eventually resolves or rejects; once
\* settled its outcome never changes, also when the dialog then fires its
\* other callback; and while the dialog has fired no callback the promise
\* stays pending, for there is no timeout.
C10_SettlesExactlyOnce ==
  /\ [][SettlesOnce]_vars
  /\ [](\A i \in Invocations : DialogSilent(i) => promise[i] = Pending)
  /\ \A i \in Invocations :
       <>[]DialogSilent(i) \/ [](op[i] = "requestPermission" => <>Settled(promise[i]))

\* The dialog fired both callbacks and the promise is settled.
C10_Witness ==
  \E i \in Invocations :
    /\ op[i] = "requestPermission"
    /\ Len(fired[i]) = 2
    /\ Settled(promise[i])

====
